---- MODULE Spec2Model ----
(***************************************************************************)
(* Interview scheduling engines of snaac-interview-scheduler.              *)
(*                                                                         *)
(* One scheduler object is constructed (engine) and then driven through    *)
(* its public operations:                                                  *)
(*   "advanced"  AdvancedInterviewScheduler (advanced_scheduler.py): two   *)
(*               tracks A/B per slot, greedy passes, optimize_schedule.    *)
(*   "single"    InterviewScheduler (schedule_optimizer.py): one team per  *)
(*               slot, greedy, backtracking, random, find_optimal_schedule.*)
(*   "exact"     InterviewScheduler (core/scheduler_engine.py): the CP     *)
(*               model solved once per strategy by generate_five_options.  *)
(*                                                                         *)
(* A slot identifier "9/12 19:00-19:45" is the pair <<date, k>>: its date  *)
(* and the rank of its time range within that date.  Python's None is      *)
(* None for names and groups, NoSlot for slot identifiers and NoReason for *)
(* conflict reasons.                                                       *)
(***************************************************************************)
EXTENDS Integers, Sequences, FiniteSets, TLC

VARIABLES
    engine,                 \* which scheduler class was constructed
    all_slots,              \* self.all_slots: the slot universe, chronological
    teams,                  \* self.teams: sequence of Team records
    time_slots,             \* self.time_slots: slot -> TimeSlot occupancy
    pc,                     \* position inside the running operation
    method,                 \* which greedy pass the team loop belongs to
    caller,                 \* "api" or "opt": who runs the team loop
    sorted_teams,           \* sorted_teams, as indices into teams
    idx,                    \* position of the team loop in sorted_teams
    a_count, b_count,       \* balance counters of schedule_interviews_balanced
    max_iterations,         \* argument of optimize_schedule
    iteration,              \* iterations of optimize_schedule begun so far
    best_schedule, best_count, best_gap_score, best_team_assignments,
    evaluated,              \* history: (count, gap, schedule) of each iteration evaluated
    result,                 \* the value the last operation returned, None while one runs
    last_op                 \* the operation that returned last, None while one runs

advVars == <<all_slots, teams, time_slots, pc, method, caller, sorted_teams, idx,
             a_count, b_count, max_iterations, iteration, best_schedule, best_count,
             best_gap_score, best_team_assignments, evaluated, result, last_op>>

VARIABLES
    s_teams,                \* InterviewScheduler.teams
    schedule,               \* InterviewScheduler.schedule: slot -> team name
    s_pc,                   \* position inside the running operation
    s_caller,               \* "api" or "find_optimal": who called _backtrack_scheduling
    bt_found,               \* what backtrack(0) returned in the running or last backtracking
    bt_touched,             \* history: positions in self.teams of the teams the search of
                            \* the running backtracking made a placement for
    s_max_iterations,       \* argument of find_optimal_schedule
    s_iteration,            \* restarts of find_optimal_schedule done so far
    s_best_schedule, s_best_count,
    s_evaluated,            \* history: the schedules find_optimal_schedule evaluated
    s_result,               \* the value the last operation returned
    s_last_op               \* the operation that returned last

sVars == <<s_teams, schedule, s_pc, s_caller, bt_found, bt_touched, s_max_iterations,
           s_iteration, s_best_schedule, s_best_count, s_evaluated, s_result, s_last_op>>

VARIABLES
    x_time_slots,           \* self.time_slots: the InterviewSlots of the scheduler
    x_teams,                \* argument teams of generate_five_options
    x_constraints,          \* argument constraints: interviewer_groups, interviewer_avoidance
    x_pc,                   \* position inside generate_five_options
    x_strategy,             \* position of the loop over strategies
    x_option,               \* the option _generate_single_option returned last
    x_options               \* options: strategy, size and metrics of each option appended

xVars == <<x_time_slots, x_teams, x_constraints, x_pc, x_strategy, x_option, x_options>>

VARIABLES
    r_options,              \* SchedulingResult.options: the metrics of each option
    r_pc,                   \* "idle", or "returned" once best_option was read
    r_best                  \* the position in options of the option best_option returned,
                            \* 0 for None

rVars == <<r_options, r_pc, r_best>>

vars == <<engine, advVars, sVars, xVars, rVars>>

----------------------------------------------------------------------------
(* Bounds of the model *)

MaxTeams == 3
MaxIterations == 2
\* most teams generate_five_options is called with
MaxExactTeams == 2
\* iteration cap of optimize_schedule on the reference fixture
FixtureIterations == 1

(* Python values *)

None == "None"
NoSlot == <<>>
NoReason == [kind |-> "None", teams |-> {}]
Inf == 1000000
EmptyDict == <<>>

\* truth value of an Optional[str]: None and "" are false
Truthy(v) == v # None /\ v # ""
\* truth value of an Optional slot identifier
TruthySlot(s) == s # NoSlot

InSeq(x, seq) == \E k \in 1..Len(seq) : seq[k] = x

\* index of the first element of seq passing Test, 0 when none does
FirstIndex(seq, Test(_)) ==
    LET S == {k \in 1..Len(seq) : Test(seq[k])}
    IN  IF S = {} THEN 0 ELSE CHOOSE k \in S : \A j \in S : k <= j

RECURSIVE Perms(_)
Perms(S) ==
    IF S = {} THEN {<<>>}
    ELSE UNION {{<<x>> \o p : p \in Perms(S \ {x})} : x \in S}

----------------------------------------------------------------------------
(* The slot universe *)

Dates == <<"9/12", "9/13", "9/14">>

DateOf(slot) == slot[1]

\* the calendar of the checked configuration: three Friday ranges, one Saturday range
SmallCalendar ==
    << <<"9/12", 1>>, <<"9/12", 2>>, <<"9/12", 3>>, <<"9/13", 1>> >>

\* _generate_all_slots: 4 ranges on 9/12, 16 on 9/13 and on 9/14
FullCalendar ==
    [k \in 1..4 |-> <<"9/12", k>>] \o [k \in 1..16 |-> <<"9/13", k>>]
        \o [k \in 1..16 |-> <<"9/14", k>>]

\* an identifier that names no slot of any calendar
Bogus == <<"9/15", 1>>

InitialTimeSlots(slots) ==
    [s \in {slots[k] : k \in 1..Len(slots)} |->
        [group_a_team |-> None, group_b_team |-> None]]

has_space(ts) == ts.group_a_team = None \/ ts.group_b_team = None

\* mutant: the free group is not looked up
get_available_group_AlwaysA(ts) == "A"

get_available_group(ts) ==
    IF ts.group_a_team = None THEN "A"
    ELSE IF ts.group_b_team = None THEN "B"
    ELSE None

NewTeam(name, available_slots) ==
    [name |-> name, available_slots |-> available_slots, email |-> "", phone |-> "",
     assigned_slot |-> NoSlot, assigned_group |-> None, conflict_reason |-> NoReason]

\* the names and availability lists add_team is called with
Names == {"T1", "T2", "T3"}

AvailChoices ==
    { <<>>,
      << <<"9/12", 1>> >>,
      << <<"9/12", 3>> >>,
      << <<"9/12", 3>>, <<"9/12", 1>> >>,
      << <<"9/12", 1>>, <<"9/13", 1>> >>,
      << Bogus >> }

----------------------------------------------------------------------------
(* Helpers of the greedy passes *)

\* sorted(self.teams, key=lambda t: len(t.available_slots)): stable
RECURSIVE SortIdx(_, _)
SortIdx(tm, left) ==
    IF left = {} THEN <<>>
    ELSE LET i == CHOOSE i \in left : \A j \in left :
                    \/ Len(tm[i].available_slots) < Len(tm[j].available_slots)
                    \/ /\ Len(tm[i].available_slots) = Len(tm[j].available_slots)
                       /\ i <= j
         IN  <<i>> \o SortIdx(tm, left \ {i})

SortedTeams(tm) == SortIdx(tm, 1..Len(tm))

ResetSlots(ts) == [s \in DOMAIN ts |-> [group_a_team |-> None, group_b_team |-> None]]

\* mutant: the reset of the teams forgets assigned_slot
ResetTeams_KeepSlot(tm) ==
    [i \in 1..Len(tm) |-> [tm[i] EXCEPT !.conflict_reason = NoReason]]

ResetTeams(tm) ==
    [i \in 1..Len(tm) |->
        [tm[i] EXCEPT !.assigned_slot = NoSlot, !.assigned_group = None,
                      !.conflict_reason = NoReason]]

\* mutant: the dates are walked from the last to the first
_get_continuous_slot_priority_LastDateFirst(slots) ==
    LET OfDate(d) == SelectSeq(slots, LAMBDA s : DateOf(s) = d)
    IN  OfDate(Dates[3]) \o OfDate(Dates[2]) \o OfDate(Dates[1])

_get_continuous_slot_priority(slots) ==
    LET OfDate(d) == SelectSeq(slots, LAMBDA s : DateOf(s) = d)
    IN  OfDate(Dates[1]) \o OfDate(Dates[2]) \o OfDate(Dates[3])

\* time_slot.group_x_team = name
SetGroup(ts, slot, group, name) ==
    IF group = "A" THEN [ts EXCEPT ![slot].group_a_team = name]
    ELSE [ts EXCEPT ![slot].group_b_team = name]

\* mutant: the test "slot in team.available_slots" is missing
ContinuousChoice_AnySlot(slots, ts, team) ==
    LET prio == _get_continuous_slot_priority(slots)
        k == FirstIndex(prio, LAMBDA s : has_space(ts[s]))
    IN  IF k = 0 THEN [found |-> FALSE, slot |-> NoSlot, group |-> None]
        ELSE [found |-> TRUE, slot |-> prio[k], group |-> get_available_group(ts[prio[k]])]

\* the (slot, group) schedule_interviews_continuous gives the team, found = FALSE if none
ContinuousChoice(slots, ts, team) ==
    LET prio == _get_continuous_slot_priority(slots)
        k == FirstIndex(prio, LAMBDA s : InSeq(s, team.available_slots) /\ has_space(ts[s]))
    IN  IF k = 0 THEN [found |-> FALSE, slot |-> NoSlot, group |-> None]
        ELSE [found |-> TRUE, slot |-> prio[k], group |-> get_available_group(ts[prio[k]])]

\* the (slot, group) schedule_interviews_max_teams gives the team
MaxTeamsChoice(ts, team) ==
    LET av == team.available_slots
        k == FirstIndex(av, LAMBDA s : s \in DOMAIN ts /\ has_space(ts[s]))
    IN  IF k = 0 THEN [found |-> FALSE, slot |-> NoSlot, group |-> None]
        ELSE [found |-> TRUE, slot |-> av[k], group |-> get_available_group(ts[av[k]])]

GroupFree(ts, slot, group) ==
    IF group = "A" THEN ts[slot].group_a_team = None ELSE ts[slot].group_b_team = None

\* mutant: the other group is never tried
BalancedChoice_PreferredOnly(ts, team, ac, bc) ==
    LET av == team.available_slots
        prefer_group == IF ac <= bc THEN "A" ELSE "B"
        k1 == FirstIndex(av, LAMBDA s : s \in DOMAIN ts /\ GroupFree(ts, s, prefer_group))
    IN  IF k1 # 0 THEN [found |-> TRUE, slot |-> av[k1], group |-> prefer_group]
        ELSE [found |-> FALSE, slot |-> NoSlot, group |-> None]

\* the (slot, group) schedule_interviews_balanced gives the team
BalancedChoice(ts, team, ac, bc) ==
    LET av == team.available_slots
        prefer_group == IF ac <= bc THEN "A" ELSE "B"
        other_group == IF prefer_group = "A" THEN "B" ELSE "A"
        k1 == FirstIndex(av, LAMBDA s : s \in DOMAIN ts /\ GroupFree(ts, s, prefer_group))
        k2 == FirstIndex(av, LAMBDA s : s \in DOMAIN ts /\ GroupFree(ts, s, other_group))
    IN  IF k1 # 0 THEN [found |-> TRUE, slot |-> av[k1], group |-> prefer_group]
        ELSE IF k2 # 0 THEN [found |-> TRUE, slot |-> av[k2], group |-> other_group]
        ELSE [found |-> FALSE, slot |-> NoSlot, group |-> None]

Choice(m, slots, ts, team, ac, bc) ==
    IF m = "continuous" THEN ContinuousChoice(slots, ts, team)
    ELSE IF m = "max_teams" THEN MaxTeamsChoice(ts, team)
    ELSE BalancedChoice(ts, team, ac, bc)

\* the (team, track) occupants _analyze_conflict collects
ConflictingTeams(ts, team) ==
    LET av == team.available_slots
        In == {av[k] : k \in 1..Len(av)} \cap DOMAIN ts
    IN  {<<ts[s].group_a_team, "A">> : s \in {s \in In : Truthy(ts[s].group_a_team)}}
        \cup {<<ts[s].group_b_team, "B">> : s \in {s \in In : Truthy(ts[s].group_b_team)}}

\* unique_teams[:3] of a list(set(...)): any three of them, all when at most three
FirstThree(S) ==
    IF Cardinality(S) <= 3 THEN {S}
    ELSE {T \in SUBSET S : Cardinality(T) = 3}

\* the reasons _analyze_conflict may return for the team
_analyze_conflict(ts, team) ==
    LET av == team.available_slots
        all_full == ~ \E k \in 1..Len(av) : av[k] \in DOMAIN ts /\ has_space(ts[av[k]])
    IN  IF Len(av) = 0 THEN {[kind |-> "NoAvailableSlots", teams |-> {}]}
        ELSE IF all_full
             THEN {[kind |-> "AllSlotsOccupied", teams |-> T] :
                        T \in FirstThree(ConflictingTeams(ts, team))}
        ELSE {[kind |-> "Unknown", teams |-> {}]}

_get_schedule_by_group(ts) ==
    [A |-> [s \in {s \in DOMAIN ts : Truthy(ts[s].group_a_team)} |-> ts[s].group_a_team],
     B |-> [s \in {s \in DOMAIN ts : Truthy(ts[s].group_b_team)} |-> ts[s].group_b_team]]


\* _calculate_gap_score: the walk over one date's slots for one group
RECURSIVE GapWalk(_, _, _, _, _)
GapWalk(ts, group, date_slots, k, in_session) ==
    IF k > Len(date_slots) THEN 0
    ELSE LET time_slot == ts[date_slots[k]]
             has_team == IF group = "A" THEN time_slot.group_a_team # None
                         ELSE time_slot.group_b_team # None
         IN  IF has_team THEN GapWalk(ts, group, date_slots, k + 1, TRUE)
             ELSE IF in_session THEN 1 + GapWalk(ts, group, date_slots, k + 1, in_session)
             ELSE GapWalk(ts, group, date_slots, k + 1, in_session)

_calculate_gap_score(slots, ts) ==
    LET OfDate(d) == SelectSeq(slots, LAMBDA s : DateOf(s) = d)
        PerGroup(g) == GapWalk(ts, g, OfDate(Dates[1]), 1, FALSE)
                       + GapWalk(ts, g, OfDate(Dates[2]), 1, FALSE)
                       + GapWalk(ts, g, OfDate(Dates[3]), 1, FALSE)
    IN  PerGroup("A") + PerGroup("B")

\* len([t for t in self.teams if t.assigned_slot])
AssignedCount(tm) == Cardinality({i \in 1..Len(tm) : TruthySlot(tm[i].assigned_slot)})

----------------------------------------------------------------------------
(* One iteration of the team loop of a greedy pass, on                      *)
(* st = [ts: time_slots, tm: teams, ac: a_count, bc: b_count]; r is the     *)
(* reason _analyze_conflict returns if the team stays unassigned.           *)

ApplyStep(m, slots, st, i, r) ==
    LET team == st.tm[i]
        c == Choice(m, slots, st.ts, team, st.ac, st.bc)
    IN  IF TruthySlot(team.assigned_slot) THEN st
        ELSE IF c.found
        THEN [ts |-> SetGroup(st.ts, c.slot, c.group, team.name),
              tm |-> [st.tm EXCEPT ![i].assigned_slot = c.slot,
                                   ![i].assigned_group = c.group],
              ac |-> IF m = "balanced" /\ c.group = "A" THEN st.ac + 1 ELSE st.ac,
              bc |-> IF m = "balanced" /\ c.group = "B" THEN st.bc + 1 ELSE st.bc]
        ELSE [st EXCEPT !.tm[i].conflict_reason = r]

\* the reasons the iteration may record: those of _analyze_conflict when it is called
StepReasons(m, slots, st, i) ==
    LET team == st.tm[i]
    IN  IF TruthySlot(team.assigned_slot)
           \/ Choice(m, slots, st.ts, team, st.ac, st.bc).found
        THEN {NoReason}
        ELSE _analyze_conflict(st.ts, team)

\* the whole team loop from position k on
RECURSIVE RunLoop(_, _, _, _, _)
RunLoop(m, slots, st, order, k) ==
    IF k > Len(order) THEN st
    ELSE LET r == CHOOSE r \in StepReasons(m, slots, st, order[k]) : TRUE
         IN  RunLoop(m, slots, ApplyStep(m, slots, st, order[k], r), order, k + 1)

\* schedule_interviews_continuous on a scheduler holding self.teams = tm:
\* reset, sort, team loop, _get_schedule_by_group
ContinuousSchedule(slots, ts, tm) ==
    LET st0 == [ts |-> ResetSlots(ts), tm |-> ResetTeams(tm), ac |-> 0, bc |-> 0]
    IN  _get_schedule_by_group(RunLoop("continuous", slots, st0, SortedTeams(tm), 1).ts)

\* the team list as add_team built it on a fresh scheduler
FreshTeams(tm) == [i \in 1..Len(tm) |-> NewTeam(tm[i].name, tm[i].available_slots)]

----------------------------------------------------------------------------
(* AdvancedInterviewScheduler: operations *)

OptLocalsIdle ==
    /\ max_iterations = 0 /\ iteration = 0 /\ best_schedule = EmptyDict
    /\ best_count = 0 /\ best_gap_score = Inf /\ best_team_assignments = <<>>

\* AdvancedInterviewScheduler() has not been constructed, or holds nothing yet
AdvFresh ==
    /\ all_slots = SmallCalendar
    /\ teams = <<>>
    /\ time_slots = InitialTimeSlots(SmallCalendar)
    /\ pc = "idle" /\ method = None /\ caller = None
    /\ sorted_teams = <<>> /\ idx = 0 /\ a_count = 0 /\ b_count = 0
    /\ OptLocalsIdle
    /\ evaluated = {}
    /\ result = None /\ last_op = None

add_team ==
    /\ engine = "advanced"
    /\ UNCHANGED <<engine, rVars, sVars, xVars>>
    /\ pc = "idle"
    /\ Len(teams) < MaxTeams
    /\ \E name \in Names, available_slots \in AvailChoices :
          teams' = Append(teams, NewTeam(name, available_slots))
    /\ result' = None /\ last_op' = "add_team" /\ evaluated' = {}
    /\ UNCHANGED <<all_slots, time_slots, pc, method, caller, sorted_teams, idx, a_count,
                   b_count, max_iterations, iteration, best_schedule, best_count,
                   best_gap_score, best_team_assignments>>

\* entry of a greedy pass: reset of the slot table and of the teams, then the sort
EnterPass(m, who, tm) ==
    /\ time_slots' = ResetSlots(time_slots)
    /\ teams' = ResetTeams(tm)
    /\ sorted_teams' = SortedTeams(tm)
    /\ idx' = 1 /\ a_count' = 0 /\ b_count' = 0
    /\ method' = m /\ caller' = who /\ pc' = "loop"

\* schedule_interviews_continuous / _max_teams / _balanced are called
BeginSolve ==
    /\ engine = "advanced"
    /\ UNCHANGED <<engine, rVars, sVars, xVars>>
    /\ pc = "idle"
    /\ \E m \in {"continuous", "max_teams", "balanced"} : EnterPass(m, "api", teams)
    /\ result' = None /\ last_op' = None /\ evaluated' = {}
    /\ UNCHANGED <<all_slots, max_iterations, iteration, best_schedule, best_count,
                   best_gap_score, best_team_assignments>>

\* one iteration of "for team in sorted_teams"
LoopStep ==
    /\ engine = "advanced"
    /\ UNCHANGED <<engine, rVars, sVars, xVars>>
    /\ pc = "loop"
    /\ idx <= Len(sorted_teams)
    /\ LET st == [ts |-> time_slots, tm |-> teams, ac |-> a_count, bc |-> b_count]
           i == sorted_teams[idx]
       IN  \E r \in StepReasons(method, all_slots, st, i) :
              LET nx == ApplyStep(method, all_slots, st, i, r)
              IN  /\ time_slots' = nx.ts /\ teams' = nx.tm
                  /\ a_count' = nx.ac /\ b_count' = nx.bc
    /\ idx' = idx + 1
    /\ UNCHANGED <<all_slots, pc, method, caller, sorted_teams, max_iterations, iteration,
                   best_schedule, best_count, best_gap_score, best_team_assignments,
                   evaluated, result, last_op>>

\* return self._get_schedule_by_group() of a pass called directly
ReturnSolve ==
    /\ engine = "advanced"
    /\ UNCHANGED <<engine, rVars, sVars, xVars>>
    /\ pc = "loop" /\ caller = "api"
    /\ idx > Len(sorted_teams)
    /\ result' = _get_schedule_by_group(time_slots)
    /\ last_op' = method
    /\ pc' = "idle" /\ method' = None /\ caller' = None
    /\ sorted_teams' = <<>> /\ idx' = 0 /\ a_count' = 0 /\ b_count' = 0
    /\ UNCHANGED <<all_slots, teams, time_slots, max_iterations, iteration, best_schedule,
                   best_count, best_gap_score, best_team_assignments, evaluated>>

\* optimize_schedule(mi) is called: its locals before the first iteration
optimize_schedule(mi) ==
    /\ engine = "advanced"
    /\ UNCHANGED <<engine, rVars, sVars, xVars>>
    /\ pc = "idle"
    /\ max_iterations' = mi
    /\ iteration' = 0
    /\ best_schedule' = EmptyDict /\ best_count' = 0 /\ best_gap_score' = Inf
    /\ best_team_assignments' = <<>>
    /\ evaluated' = {}
    /\ result' = None /\ last_op' = None
    /\ pc' = "opt"
    /\ UNCHANGED <<all_slots, teams, time_slots, method, caller, sorted_teams, idx,
                   a_count, b_count>>

OptBegin == \E mi \in 0..MaxIterations : optimize_schedule(mi)

\* random.shuffle(self.teams): any order of the same teams
Shuffles(tm) ==
    {[k \in 1..Len(tm) |-> tm[p[k]]] : p \in Perms(1..Len(tm))}

\* an iteration begins: shuffle, then schedule_interviews_continuous up to its team loop
OptIterate ==
    /\ engine = "advanced"
    /\ UNCHANGED <<engine, rVars, sVars, xVars>>
    /\ pc = "opt"
    /\ iteration < max_iterations
    /\ \E shuffled \in Shuffles(teams) : EnterPass("continuous", "opt", shuffled)
    /\ iteration' = iteration + 1
    /\ UNCHANGED <<all_slots, max_iterations, best_schedule, best_count, best_gap_score,
                   best_team_assignments, evaluated, result, last_op>>

\* mutant: only a larger count replaces the best
Improves_StrictCount(assigned_count, gap_score, bc, bg) == assigned_count > bc

\* mutant: an equal count replaces the best whatever the gap score
Improves_OnEqualCount(assigned_count, gap_score, bc, bg) == assigned_count >= bc

\* (assigned_count > best_count) or (equal and gap_score < best_gap_score)
Improves(assigned_count, gap_score, bc, bg) ==
    \/ assigned_count > bc
    \/ assigned_count = bc /\ gap_score < bg

\* the pass of the iteration returned: count, gap score, comparison, early exit
OptEvaluate ==
    /\ engine = "advanced"
    /\ UNCHANGED <<engine, rVars, sVars, xVars>>
    /\ pc = "loop" /\ caller = "opt"
    /\ idx > Len(sorted_teams)
    /\ LET sched == _get_schedule_by_group(time_slots)
           assigned_count == AssignedCount(teams)
           gap_score == _calculate_gap_score(all_slots, time_slots)
           better == Improves(assigned_count, gap_score, best_count, best_gap_score)
       IN  /\ evaluated' = evaluated \cup
                 {[count |-> assigned_count, gap |-> gap_score, schedule |-> sched]}
           /\ best_schedule' = IF better THEN sched ELSE best_schedule
           /\ best_count' = IF better THEN assigned_count ELSE best_count
           /\ best_gap_score' = IF better THEN gap_score ELSE best_gap_score
           /\ best_team_assignments' =
                 IF better
                 THEN [k \in 1..Len(teams) |->
                          <<teams[k].name, teams[k].assigned_slot, teams[k].assigned_group,
                            teams[k].conflict_reason>>]
                 ELSE best_team_assignments
           /\ pc' = IF better /\ assigned_count = Len(teams) /\ gap_score = 0
                    THEN "restore" ELSE "opt"
    /\ method' = None /\ caller' = None
    /\ sorted_teams' = <<>> /\ idx' = 0 /\ a_count' = 0 /\ b_count' = 0
    /\ UNCHANGED <<all_slots, teams, time_slots, max_iterations, iteration, result, last_op>>

\* the slot table rebuilt from best_schedule
RestoredSlots(ts, best) ==
    [s \in DOMAIN ts |->
        [group_a_team |-> IF s \in DOMAIN best.A THEN best.A[s] ELSE None,
         group_b_team |-> IF s \in DOMAIN best.B THEN best.B[s] ELSE None]]

\* mutant: the teams keep the state of the last iteration
RestoredTeams_KeepLast(tm, saved) == tm

\* each team takes the first saved tuple that carries its name
RestoredTeams(tm, saved) ==
    [i \in 1..Len(tm) |->
        LET k == FirstIndex(saved, LAMBDA e : e[1] = tm[i].name)
        IN  IF k = 0 THEN tm[i]
            ELSE [tm[i] EXCEPT !.assigned_slot = saved[k][2],
                               !.assigned_group = saved[k][3],
                               !.conflict_reason = saved[k][4]]]

\* the loop of optimize_schedule is over: restore the best state and return best_schedule
OptFinish ==
    /\ engine = "advanced"
    /\ UNCHANGED <<engine, rVars, sVars, xVars>>
    /\ \/ pc = "restore"
       \/ pc = "opt" /\ iteration >= max_iterations
    /\ IF Len(best_team_assignments) > 0
       THEN /\ time_slots' = RestoredSlots(time_slots, best_schedule)
            /\ teams' = RestoredTeams(teams, best_team_assignments)
       ELSE UNCHANGED <<time_slots, teams>>
    /\ result' = best_schedule
    /\ last_op' = "optimize"
    /\ pc' = "idle"
    /\ max_iterations' = 0 /\ iteration' = 0 /\ best_schedule' = EmptyDict
    /\ best_count' = 0 /\ best_gap_score' = Inf /\ best_team_assignments' = <<>>
    /\ UNCHANGED <<all_slots, method, caller, sorted_teams, idx, a_count, b_count, evaluated>>

\* the numbers get_schedule_statistics returns (the percentages are formatted from
\* assigned_teams / total_teams and used_capacity / total_capacity)
get_schedule_statistics(slots, ts, tm) ==
    LET group_a_count == Cardinality({i \in 1..Len(tm) : tm[i].assigned_group = "A"})
        group_b_count == Cardinality({i \in 1..Len(tm) : tm[i].assigned_group = "B"})
    IN  [total_teams |-> Len(tm),
         assigned_teams |-> AssignedCount(tm),
         unassigned_teams |-> Len(tm) - AssignedCount(tm),
         group_a_count |-> group_a_count,
         group_b_count |-> group_b_count,
         date_stats |->
            [d \in {Dates[k] : k \in 1..Len(Dates)} |->
                [A |-> Cardinality({s \in DOMAIN ts :
                                       DateOf(s) = d /\ Truthy(ts[s].group_a_team)}),
                 B |-> Cardinality({s \in DOMAIN ts :
                                       DateOf(s) = d /\ Truthy(ts[s].group_b_team)})]],
         total_capacity |-> Len(slots) * 2,
         used_capacity |-> group_a_count + group_b_count,
         gap_score |-> _calculate_gap_score(slots, ts)]

\* get_schedule_statistics is called on the scheduler at rest
GetStatistics ==
    /\ engine = "advanced"
    /\ UNCHANGED <<engine, rVars, sVars, xVars>>
    /\ pc = "idle"
    /\ result' = get_schedule_statistics(all_slots, time_slots, teams)
    /\ last_op' = "statistics"
    /\ UNCHANGED <<all_slots, teams, time_slots, pc, method, caller, sorted_teams, idx,
                   a_count, b_count, max_iterations, iteration, best_schedule, best_count,
                   best_gap_score, best_team_assignments, evaluated>>

AdvNext ==
    \/ add_team
    \/ GetStatistics
    \/ BeginSolve
    \/ LoopStep
    \/ ReturnSolve
    \/ OptBegin
    \/ OptIterate
    \/ OptEvaluate
    \/ OptFinish

----------------------------------------------------------------------------
(* InterviewScheduler of schedule_optimizer.py: one team per slot *)

NewSTeam(name, available_slots) ==
    [name |-> name, available_slots |-> available_slots, email |-> "", phone |-> "",
     assigned_slot |-> NoSlot]

\* d[k] = v and del d[k] on a dict
Put(d, k, v) == [x \in DOMAIN d \cup {k} |-> IF x = k THEN v ELSE d[x]]
Del(d, k) == [x \in DOMAIN d \ {k} |-> d[x]]

\* mutant: the placement also removes the slot from the team's availability list
SPlace_ConsumesSlot(st, i, slot) ==
    [st EXCEPT !.schedule = Put(st.schedule, slot, st.tm[i].name),
               !.tm[i].assigned_slot = slot,
               !.tm[i].available_slots = SelectSeq(@, LAMBDA s : s # slot)]

\* self.schedule[slot] = team.name; team.assigned_slot = slot
SPlace(st, i, slot) ==
    [st EXCEPT !.schedule = Put(st.schedule, slot, st.tm[i].name),
               !.tm[i].assigned_slot = slot]

\* mutant: no break after a placement, the team takes every free slot of its list
RECURSIVE GreedyLoop_NoBreak(_, _, _)
GreedyLoop_NoBreak(st, order, k) ==
    IF k > Len(order) THEN st
    ELSE LET i == order[k]
             av == st.tm[i].available_slots
             free == {av[j] : j \in 1..Len(av)} \ DOMAIN st.schedule
             j == FirstIndex(av, LAMBDA slot : slot \notin DOMAIN st.schedule)
         IN  IF j = 0 THEN GreedyLoop_NoBreak(st, order, k + 1)
             ELSE GreedyLoop_NoBreak(
                     [st EXCEPT !.schedule = [x \in DOMAIN st.schedule \cup free |->
                                                 IF x \in free THEN st.tm[i].name
                                                 ELSE st.schedule[x]],
                                !.tm[i].assigned_slot = av[Len(av)]],
                     order, k + 1)

\* the team loop of _greedy_scheduling from position k of the sorted order
RECURSIVE GreedyLoop(_, _, _)
GreedyLoop(st, order, k) ==
    IF k > Len(order) THEN st
    ELSE LET i == order[k]
             av == st.tm[i].available_slots
             j == FirstIndex(av, LAMBDA slot : slot \notin DOMAIN st.schedule)
         IN  IF j = 0 THEN GreedyLoop(st, order, k + 1)
             ELSE GreedyLoop(SPlace(st, i, av[j]), order, k + 1)

\* _greedy_scheduling on the teams tm: [schedule, tm] when it returns
_greedy_scheduling(tm) ==
    GreedyLoop([schedule |-> EmptyDict, tm |-> tm], SortedTeams(tm), 1)

\* backtrack(team_idx) and its slot loop from the k-th available slot on;
\* st = [schedule, tm, assigned_teams, touched, ok], ok being the value returned and
\* touched the teams a placement was made for so far
RECURSIVE backtrack(_, _), TrySlots(_, _, _)
backtrack(st, team_idx) ==
    IF team_idx > Len(st.tm) THEN [st EXCEPT !.ok = TRUE]
    ELSE IF st.tm[team_idx].name \in st.assigned_teams THEN backtrack(st, team_idx + 1)
    ELSE TrySlots(st, team_idx, 1)

\* mutant: a failed recursion ends the slot loop, no other slot is tried
TrySlots_NoRetry(st, team_idx, k) ==
    LET team == st.tm[team_idx]
        av == team.available_slots
    IN  IF k > Len(av) THEN [st EXCEPT !.ok = FALSE]
        ELSE IF av[k] \in DOMAIN st.schedule THEN TrySlots(st, team_idx, k + 1)
        ELSE LET placed == [st EXCEPT !.schedule = Put(st.schedule, av[k], team.name),
                                      !.tm[team_idx].assigned_slot = av[k],
                                      !.assigned_teams = st.assigned_teams \cup {team.name},
                                      !.touched = st.touched \cup {team_idx}]
                 sub == backtrack(placed, team_idx + 1)
                 undone == [sub EXCEPT !.schedule = Del(sub.schedule, av[k]),
                                       !.tm[team_idx].assigned_slot = NoSlot,
                                       !.assigned_teams = sub.assigned_teams \ {team.name}]
             IN  IF sub.ok THEN sub ELSE [undone EXCEPT !.ok = FALSE]

TrySlots(st, team_idx, k) ==
    LET team == st.tm[team_idx]
        av == team.available_slots
    IN  IF k > Len(av) THEN [st EXCEPT !.ok = FALSE]
        ELSE IF av[k] \in DOMAIN st.schedule THEN TrySlots(st, team_idx, k + 1)
        ELSE LET placed == [st EXCEPT !.schedule = Put(st.schedule, av[k], team.name),
                                      !.tm[team_idx].assigned_slot = av[k],
                                      !.assigned_teams = st.assigned_teams \cup {team.name},
                                      !.touched = st.touched \cup {team_idx}]
                 sub == backtrack(placed, team_idx + 1)
                 undone == [sub EXCEPT !.schedule = Del(sub.schedule, av[k]),
                                       !.tm[team_idx].assigned_slot = NoSlot,
                                       !.assigned_teams = sub.assigned_teams \ {team.name}]
             IN  IF sub.ok THEN sub ELSE TrySlots(undone, team_idx, k + 1)

\* self.teams.sort(key=lambda t: len(t.available_slots))
SortInPlace(tm) == LET order == SortedTeams(tm) IN [k \in 1..Len(tm) |-> tm[order[k]]]

\* _backtrack_scheduling up to the value of backtrack(0)
BacktrackSearch(tm) ==
    backtrack([schedule |-> EmptyDict, tm |-> SortInPlace(tm), assigned_teams |-> {},
               touched |-> {}, ok |-> FALSE], 1)

\* the team loop of _random_scheduling over teams_copy from position k: every outcome
RECURSIVE RandomLoop(_, _, _)
RandomLoop(st, order, k) ==
    IF k > Len(order) THEN {st}
    ELSE LET i == order[k]
             av == st.tm[i].available_slots
             available == {av[j] : j \in 1..Len(av)} \ DOMAIN st.schedule
         IN  IF available = {} THEN RandomLoop(st, order, k + 1)
             ELSE UNION {RandomLoop(SPlace(st, i, slot), order, k + 1) : slot \in available}

_random_scheduling(tm) ==
    UNION {RandomLoop([schedule |-> EmptyDict, tm |-> tm], p, 1) : p \in Perms(1..Len(tm))}

SLocalsIdle ==
    /\ s_caller = None /\ s_max_iterations = 0 /\ s_iteration = 0
    /\ s_best_schedule = EmptyDict /\ s_best_count = 0

\* InterviewScheduler() has not been constructed, or holds nothing yet
SingleFresh ==
    /\ s_teams = <<>> /\ schedule = EmptyDict
    /\ s_pc = "idle" /\ bt_found = FALSE /\ bt_touched = {}
    /\ SLocalsIdle
    /\ s_evaluated = {}
    /\ s_result = None /\ s_last_op = None

s_add_team ==
    /\ engine = "single" /\ s_pc = "idle"
    /\ Len(s_teams) < MaxTeams
    /\ \E name \in Names, available_slots \in AvailChoices :
          s_teams' = Append(s_teams, NewSTeam(name, available_slots))
    /\ s_result' = None /\ s_last_op' = "add_team" /\ s_evaluated' = {}
    /\ UNCHANGED <<schedule, s_pc, s_caller, bt_found, bt_touched, s_max_iterations,
                   s_iteration, s_best_schedule, s_best_count>>
    /\ UNCHANGED <<engine, rVars, advVars, xVars>>

\* schedule_interviews("greedy")
s_greedy ==
    /\ engine = "single" /\ s_pc = "idle"
    /\ LET out == _greedy_scheduling(s_teams)
       IN  /\ schedule' = out.schedule /\ s_teams' = out.tm
           /\ s_result' = out.schedule
    /\ s_last_op' = "greedy" /\ s_evaluated' = {}
    /\ UNCHANGED <<s_pc, s_caller, bt_found, bt_touched, s_max_iterations, s_iteration,
                   s_best_schedule, s_best_count>>
    /\ UNCHANGED <<engine, rVars, advVars, xVars>>

\* schedule_interviews("random")
s_random ==
    /\ engine = "single" /\ s_pc = "idle"
    /\ \E out \in _random_scheduling(s_teams) :
          /\ schedule' = out.schedule /\ s_teams' = out.tm
          /\ s_result' = out.schedule
    /\ s_last_op' = "random" /\ s_evaluated' = {}
    /\ UNCHANGED <<s_pc, s_caller, bt_found, bt_touched, s_max_iterations, s_iteration,
                   s_best_schedule, s_best_count>>
    /\ UNCHANGED <<engine, rVars, advVars, xVars>>

\* _backtrack_scheduling is entered, from schedule_interviews("backtrack") or as the
\* first step of find_optimal_schedule(max_iterations), and runs to the end of its search
BacktrackBegin ==
    /\ engine = "single" /\ s_pc = "idle"
    /\ \E who \in {"api", "find_optimal"} :
          /\ s_caller' = who
          /\ \E mi \in 0..MaxIterations :
                s_max_iterations' = IF who = "find_optimal" THEN mi ELSE 0
    /\ LET out == BacktrackSearch(s_teams)
       IN  /\ schedule' = out.schedule /\ s_teams' = out.tm /\ bt_found' = out.ok
           /\ bt_touched' = out.touched
    /\ s_pc' = "searched"
    /\ s_iteration' = 0 /\ s_best_schedule' = EmptyDict /\ s_best_count' = 0
    /\ s_result' = None /\ s_last_op' = None /\ s_evaluated' = {}
    /\ UNCHANGED <<engine, rVars, advVars, xVars>>

SAssignedCount(tm) == Cardinality({i \in 1..Len(tm) : TruthySlot(tm[i].assigned_slot)})

\* _backtrack_scheduling returns: the schedule found, or the greedy fallback; called from
\* find_optimal_schedule, the result is compared and returned at once if it looks complete
BacktrackReturn ==
    /\ engine = "single" /\ s_pc = "searched"
    /\ LET out == IF bt_found THEN [schedule |-> schedule, tm |-> s_teams]
                  ELSE _greedy_scheduling(s_teams)
           assigned_count == SAssignedCount(out.tm)
           best == IF assigned_count > 0 THEN out.schedule ELSE EmptyDict
           best_n == IF assigned_count > 0 THEN assigned_count ELSE 0
       IN  /\ schedule' = out.schedule /\ s_teams' = out.tm
           /\ IF s_caller = "api"
              THEN /\ s_result' = out.schedule /\ s_last_op' = "backtrack"
                   /\ s_pc' = "idle" /\ s_caller' = None
                   /\ UNCHANGED <<s_best_schedule, s_best_count, s_evaluated,
                                  s_max_iterations>>
              ELSE /\ s_evaluated' = {out.schedule}
                   /\ IF best_n = Len(out.tm)
                      THEN /\ s_result' = best /\ s_last_op' = "find_optimal"
                           /\ s_pc' = "idle" /\ s_caller' = None
                           /\ s_best_schedule' = EmptyDict /\ s_best_count' = 0
                           /\ s_max_iterations' = 0
                      ELSE /\ s_best_schedule' = best /\ s_best_count' = best_n
                           /\ s_pc' = "restarts"
                           /\ UNCHANGED <<s_result, s_last_op, s_caller, s_max_iterations>>
    /\ bt_touched' = {}
    /\ UNCHANGED <<bt_found, s_iteration>>
    /\ UNCHANGED <<engine, rVars, advVars, xVars>>

\* one restart of find_optimal_schedule: shuffle, greedy, comparison, early exit
FindOptimalIterate ==
    /\ engine = "single" /\ s_pc = "restarts"
    /\ s_iteration < s_max_iterations
    /\ \E shuffled \in Shuffles(s_teams) :
          LET out == _greedy_scheduling(shuffled)
              assigned_count == SAssignedCount(out.tm)
              better == assigned_count > s_best_count
          IN  /\ schedule' = out.schedule /\ s_teams' = out.tm
              /\ s_evaluated' = s_evaluated \cup {out.schedule}
              /\ s_best_schedule' = IF better THEN out.schedule ELSE s_best_schedule
              /\ s_best_count' = IF better THEN assigned_count ELSE s_best_count
              /\ s_pc' = IF better /\ assigned_count = Len(out.tm) THEN "finish"
                         ELSE "restarts"
    /\ s_iteration' = s_iteration + 1
    /\ UNCHANGED <<s_caller, bt_found, bt_touched, s_max_iterations, s_result, s_last_op>>
    /\ UNCHANGED <<engine, rVars, advVars, xVars>>

\* the restarts are over: self.schedule = best_schedule; return best_schedule
FindOptimalFinish ==
    /\ engine = "single"
    /\ \/ s_pc = "finish"
       \/ s_pc = "restarts" /\ s_iteration >= s_max_iterations
    /\ schedule' = s_best_schedule
    /\ s_result' = s_best_schedule /\ s_last_op' = "find_optimal"
    /\ s_pc' = "idle" /\ s_caller' = None
    /\ s_max_iterations' = 0 /\ s_iteration' = 0
    /\ s_best_schedule' = EmptyDict /\ s_best_count' = 0
    /\ UNCHANGED <<s_teams, bt_found, bt_touched, s_evaluated>>
    /\ UNCHANGED <<engine, rVars, advVars, xVars>>

SingleNext ==
    \/ s_add_team
    \/ s_greedy
    \/ s_random
    \/ BacktrackBegin
    \/ BacktrackReturn
    \/ FindOptimalIterate
    \/ FindOptimalFinish

----------------------------------------------------------------------------
(* InterviewScheduler of core/scheduler_engine.py: the CP model.  A time   *)
(* "HH:MM" is the pair <<HH, MM>>, a preference "HH:MM-HH:MM" a pair of     *)
(* times; a slot_id is the rank of its slot in self.time_slots.            *)

\* self.time_slots as the constructor builds it, on a calendar of one morning and one
\* afternoon range: an InterviewSlot of group A and one of group B for each
ExactTimeSlots ==
    << [slot_id |-> 1, start_time |-> <<9, 0>>,  end_time |-> <<9, 30>>,  group |-> "A"],
       [slot_id |-> 2, start_time |-> <<9, 0>>,  end_time |-> <<9, 30>>,  group |-> "B"],
       [slot_id |-> 3, start_time |-> <<14, 0>>, end_time |-> <<14, 30>>, group |-> "A"],
       [slot_id |-> 4, start_time |-> <<14, 0>>, end_time |-> <<14, 30>>, group |-> "B"] >>

InterviewGroups == <<"A", "B">>

Strategies ==
    <<"first_preference", "time_distribution", "morning_afternoon_balance",
      "group_balance", "interviewer_constraints">>

\* the time preferences of the teams generate_five_options is called with
PrefAM == << <<9, 0>>, <<10, 0>> >>
PrefPM == << <<14, 0>>, <<14, 30>> >>
PrefNoon == << <<12, 0>>, <<13, 0>> >>
PrefChoices == { <<>>, <<PrefAM>>, <<PrefPM, PrefAM>>, <<PrefNoon>> }

TeamIds == <<"t1", "t2">>

\* the team lists: distinct team_ids, in the order of TeamIds
TeamLists ==
    UNION {{[i \in 1..n |-> [team_id |-> TeamIds[i], time_preferences |-> tp[i]]] :
               tp \in [1..n -> PrefChoices]} : n \in 0..MaxExactTeams}

\* InterviewConstraint: interviewer_groups and interviewer_avoidance of one interviewer
ConstraintChoices ==
    {[interviewer_groups |-> g, interviewer_avoidance |-> a] :
        g \in {EmptyDict, [i1 |-> "A"], [i1 |-> "B"]},
        a \in {EmptyDict, [i1 |-> <<"t1">>], [i1 |-> <<"t2", "t1">>]}}

_time_to_minutes(t) == t[1] * 60 + t[2]

_time_ranges_overlap(start1, end1, start2, end2) ==
    /\ _time_to_minutes(start1) < _time_to_minutes(end2)
    /\ _time_to_minutes(start2) < _time_to_minutes(end1)

\* _find_matching_slots, as the set of the slot_ids it returns
_find_matching_slots(time_pref) ==
    {k \in 1..Len(x_time_slots) :
        _time_ranges_overlap(time_pref[1], time_pref[2],
                             x_time_slots[k].start_time, x_time_slots[k].end_time)}

\* the keys (slot_id, group) of schedule_vars of one team: every slot with both groups
VarKeys == (1..Len(x_time_slots)) \X {"A", "B"}

\* constraints 1 and 2: one variable of each team is 1 (x[i] is its key), and no key
\* (slot_id, group) is taken by two teams
Placements(tms) ==
    {x \in [1..Len(tms) -> VarKeys] : \A i, j \in 1..Len(tms) : i # j => x[i] # x[j]}

\* constraint 3: group_vars[(team, group)] is the sum of the team's variables
\* (slot, group) over the slots whose own group is that group
GroupVar(x, i, group) ==
    IF x[i][2] = group /\ x_time_slots[x[i][1]].group = group THEN 1 ELSE 0

\* _add_interviewer_constraints: group_vars[(team, group of the interviewer)] == 0 for
\* the first team carrying an avoided team_id
AvoidanceHolds(tms, c, x) ==
    \A iv \in DOMAIN c.interviewer_avoidance :
        LET interviewer_group == IF iv \in DOMAIN c.interviewer_groups
                                 THEN c.interviewer_groups[iv] ELSE None
            group_enum == IF interviewer_group = "A" THEN "A" ELSE "B"
            avoided_teams == c.interviewer_avoidance[iv]
        IN  Truthy(interviewer_group) =>
                \A k \in 1..Len(avoided_teams) :
                    LET i == FirstIndex(tms, LAMBDA t : t.team_id = avoided_teams[k])
                    IN  i # 0 => GroupVar(x, i, group_enum) = 0

\* constraint 4: preference_vars[(team, rank)] <= sum of the team's variables on the
\* slots matching its rank-th preference, posted only when some slot matches
PreferenceVars(tms, x) ==
    {p \in [1..Len(tms) -> [1..3 -> {0, 1}]] :
        \A i \in 1..Len(tms) : \A rank \in 1..3 :
            rank <= Len(tms[i].time_preferences) =>
                LET matching_slots == _find_matching_slots(tms[i].time_preferences[rank])
                IN  matching_slots # {} =>
                        p[i][rank] <= (IF x[i][1] \in matching_slots THEN 1 ELSE 0)}

\* the assignments satisfying every constraint the model posts
Solutions(tms, c) ==
    UNION {{[x |-> x, p |-> p] : p \in PreferenceVars(tms, x)} :
              x \in {y \in Placements(tms) : AvoidanceHolds(tms, c, y)}}

Abs(v) == IF v < 0 THEN 0 - v ELSE v

RECURSIVE SumFn(_)
SumFn(f) ==
    IF DOMAIN f = {} THEN 0
    ELSE LET k == CHOOSE j \in DOMAIN f : TRUE
         IN  f[k] + SumFn([j \in DOMAIN f \ {k} |-> f[j]])

\* _set_objective_function: the value the strategy minimizes (a maximized sum is negated)
Objective(strategy, tms, sol) ==
    LET n == Len(tms)
        weighted(w1, w2, w3) ==
            SumFn([i \in 1..n |-> w1 * sol.p[i][1] + w2 * sol.p[i][2] + w3 * sol.p[i][3]])
        usage(k) == Cardinality({i \in 1..n : sol.x[i][1] = k})
        morning == Cardinality({i \in 1..n : x_time_slots[sol.x[i][1]].start_time[1] < 12})
        group_teams(g) == SumFn([i \in 1..n |-> GroupVar(sol.x, i, g)])
    IN  CASE strategy = "first_preference" -> 0 - weighted(100, 50, 25)
          [] strategy = "time_distribution" ->
                LET avg_usage == n \div Len(x_time_slots)
                IN  SumFn([k \in 1..Len(x_time_slots) |-> Abs(usage(k) - avg_usage)])
          [] strategy = "morning_afternoon_balance" -> Abs(morning - (n - morning))
          [] strategy = "group_balance" -> Abs(group_teams("A") - group_teams("B"))
          [] strategy = "interviewer_constraints" -> 0 - weighted(10, 5, 1)

\* self.solver.Solve(self.model) run to the end: the solutions of optimal objective
OptimalSolutions(strategy, tms, c) ==
    LET sols == Solutions(tms, c)
        values == {Objective(strategy, tms, sol) : sol \in sols}
        best == CHOOSE v \in values : \A w \in values : v <= w
    IN  IF sols = {} THEN {} ELSE {sol \in sols : Objective(strategy, tms, sol) = best}

\* mutant: the walk over the teams ends with the first Schedule built
_extract_solution_FirstTeamOnly(tms, sol) ==
    [i \in 1..(IF Len(tms) > 1 THEN 1 ELSE Len(tms)) |->
        [team |-> tms[i].team_id,
         interview_slot |-> x_time_slots[sol.x[i][1]],
         preference_rank |-> 0]]

\* _extract_solution: each team's Schedule on the slot of its first variable of value 1,
\* with the first rank whose preference variable is 1
_extract_solution(tms, sol) ==
    [i \in 1..Len(tms) |->
        LET ranks == {rank \in 1..3 : sol.p[i][rank] = 1}
        IN  [team |-> tms[i].team_id,
             interview_slot |-> x_time_slots[sol.x[i][1]],
             preference_rank |-> IF ranks = {} THEN 0
                                 ELSE CHOOSE r \in ranks : \A q \in ranks : r <= q]]

\* validate_solution, part 2: the keys (slot_id, group) met a second time
SlotCollisions(schedules) ==
    {<<schedules[j].interview_slot.slot_id, schedules[j].interview_slot.group>> :
        j \in {j \in 1..Len(schedules) :
                  \E k \in 1..(j - 1) :
                      /\ schedules[k].interview_slot.slot_id
                            = schedules[j].interview_slot.slot_id
                      /\ schedules[k].interview_slot.group
                            = schedules[j].interview_slot.group}}

\* no option: what _generate_single_option returns when the solve fails
NoOption == [strategy_type |-> None, schedules |-> <<>>]

\* InterviewConstraint() with its defaults
NoConstraints == [interviewer_groups |-> EmptyDict, interviewer_avoidance |-> EmptyDict]

\* no call of generate_five_options made yet
ExactIdle ==
    /\ x_teams = <<>> /\ x_constraints = NoConstraints
    /\ x_pc = "idle" /\ x_strategy = 0
    /\ x_option = NoOption /\ x_options = <<>>

ExactFresh ==
    /\ x_time_slots = ExactTimeSlots
    /\ ExactIdle

\* generate_five_options(teams, constraints) is called: ValueError on an empty list
generate_five_options(tms, c) ==
    /\ engine = "exact"
    /\ UNCHANGED <<engine, rVars, advVars, sVars, x_time_slots>>
    /\ x_pc \in {"idle", "returned", "raised"}
    /\ x_teams' = tms /\ x_constraints' = c
    /\ x_pc' = IF Len(tms) = 0 THEN "raised" ELSE "solve"
    /\ x_strategy' = 1
    /\ x_option' = NoOption /\ x_options' = <<>>

\* a call of generate_five_options with a team list and constraints of the checked sets
ExactCall == \E tms \in TeamLists, c \in ConstraintChoices : generate_five_options(tms, c)

\* _generate_single_option for the strategy in turn: variables, constraints, objective,
\* Solve, _extract_solution; None when the model has no solution
_generate_single_option ==
    /\ engine = "exact"
    /\ UNCHANGED <<engine, rVars, advVars, sVars>>
    /\ x_pc = "solve"
    /\ LET strategy == Strategies[x_strategy]
           sols == OptimalSolutions(strategy, x_teams, x_constraints)
       IN  IF sols = {} THEN x_option' = NoOption
           ELSE \E sol \in sols :
                   x_option' = [strategy_type |-> strategy,
                                schedules |-> _extract_solution(x_teams, sol)]
    /\ x_pc' = "solved"
    /\ UNCHANGED <<x_time_slots, x_teams, x_constraints, x_strategy, x_options>>

\* "if option and option.schedules: options.append(option)", then the next strategy
AppendOption ==
    /\ engine = "exact"
    /\ UNCHANGED <<engine, rVars, advVars, sVars>>
    /\ x_pc = "solved"
    /\ x_options' = IF x_option # NoOption /\ Len(x_option.schedules) > 0
                    THEN Append(x_options, [strategy_type |-> x_option.strategy_type,
                                            total_teams |-> Len(x_option.schedules)])
                    ELSE x_options
    /\ x_option' = NoOption
    /\ x_strategy' = x_strategy + 1
    /\ x_pc' = IF x_strategy = Len(Strategies) THEN "returned" ELSE "solve"
    /\ UNCHANGED <<x_time_slots, x_teams, x_constraints>>

ExactNext ==
    \/ ExactCall
    \/ _generate_single_option
    \/ AppendOption

----------------------------------------------------------------------------
(* SchedulingResult of core/models.py: the recommendation.  The metrics are *)
(* percentages and the composite score is kept times ten, so that the       *)
(* weights 0.4, 0.3 and 0.3 are the integers 4, 3 and 3 and the initial     *)
(* best_score -1 is -10.                                                    *)

\* most options of a SchedulingResult
MaxOptions == 2

\* the metrics of an option: percentages and a count of violations
OptionChoices ==
    {[first_choice_satisfaction |-> f, group_balance_score |-> g,
      constraint_violations |-> c] : f \in {0, 50, 100}, g \in {0, 100}, c \in {0, 3, 4}}

OptionLists == UNION {[1..n -> OptionChoices] : n \in 0..MaxOptions}

\* ten times the score best_option computes for an option
CompositeScore(option) ==
    option.first_choice_satisfaction * 4 + option.group_balance_score * 3
       - option.constraint_violations * 3

\* the loop of best_option from position k on: best_score and best_option so far
RECURSIVE BestScan(_, _, _, _)
BestScan(options, k, best_score, best) ==
    IF k > Len(options) THEN best
    ELSE IF CompositeScore(options[k]) > best_score
         THEN BestScan(options, k + 1, CompositeScore(options[k]), k)
         ELSE BestScan(options, k + 1, best_score, best)

\* SchedulingResult.best_option: None (0) on an empty list, else the loop from
\* best_score = -1, best_option = None
best_option(options) ==
    IF Len(options) = 0 THEN 0 ELSE BestScan(options, 1, -10, 0)

\* no SchedulingResult read yet
ResultFresh == r_options = <<>> /\ r_pc = "idle" /\ r_best = 0

\* result.best_option is read
ReadBestOption ==
    /\ engine = "result"
    /\ r_pc = "idle"
    /\ r_best' = best_option(r_options)
    /\ r_pc' = "returned"
    /\ UNCHANGED <<engine, advVars, sVars, xVars, r_options>>

----------------------------------------------------------------------------
(* The checked system: one scheduler of either class *)

Init ==
    /\ engine \in {"advanced", "single"}
    /\ AdvFresh
    /\ SingleFresh
    /\ ExactFresh
    /\ ResultFresh

Next == AdvNext \/ SingleNext

Spec == Init /\ [][Next]_vars

----------------------------------------------------------------------------
(* test_advanced_scheduler: the eight teams of the reference fixture on the *)
(* full calendar, then one call of optimize_schedule                        *)

FixtureTeam(name, available_slots) ==
    [NewTeam(name, available_slots) EXCEPT !.email = name, !.phone = "010-0000-0000"]

FixtureTeams ==
    << FixtureTeam("Fillyday", << <<"9/12", 1>>, <<"9/12", 2>>, <<"9/12", 3>> >>),
       FixtureTeam("Amuse8",   << <<"9/12", 1>>, <<"9/13", 1>>, <<"9/13", 2>> >>),
       FixtureTeam("TeamC",    << <<"9/12", 1>>, <<"9/12", 2>> >>),
       FixtureTeam("TeamD",    << <<"9/13", 1>>, <<"9/13", 2>> >>),
       FixtureTeam("TeamE",    << <<"9/13", 1>>, <<"9/13", 3>> >>),
       FixtureTeam("TeamF",    << <<"9/13", 2>>, <<"9/13", 3>> >>),
       FixtureTeam("TeamG",    << <<"9/14", 1>>, <<"9/14", 2>> >>),
       FixtureTeam("TeamH",    << <<"9/14", 1>>, <<"9/14", 3>> >>) >>

FixtureInit ==
    /\ engine = "advanced"
    /\ all_slots = FullCalendar
    /\ teams = FixtureTeams
    /\ time_slots = InitialTimeSlots(FullCalendar)
    /\ pc = "idle" /\ method = None /\ caller = None
    /\ sorted_teams = <<>> /\ idx = 0 /\ a_count = 0 /\ b_count = 0
    /\ OptLocalsIdle
    /\ evaluated = {}
    /\ result = None /\ last_op = None
    /\ SingleFresh
    /\ ExactFresh
    /\ ResultFresh

\* schedule = scheduler.optimize_schedule(), once
FixtureOptimize == last_op = None /\ optimize_schedule(FixtureIterations)

FixtureNext ==
    \/ FixtureOptimize
    \/ OptIterate
    \/ LoopStep
    \/ OptEvaluate
    \/ OptFinish

FixtureSpec == FixtureInit /\ [][FixtureNext]_vars

----------------------------------------------------------------------------
(* The exact solver alone *)

ExactInit ==
    /\ engine = "exact"
    /\ AdvFresh
    /\ SingleFresh
    /\ ExactFresh
    /\ ResultFresh

ExactSpec == ExactInit /\ [][ExactNext]_vars

----------------------------------------------------------------------------
(* The exact solver with more teams than InterviewSlots: a calendar of one   *)
(* time range (an InterviewSlot of group A and one of group B), called with  *)
(* three teams or with MaxCrowdedTeams teams                                 *)

\* most teams of a call on the one-range calendar
MaxCrowdedTeams == 5

CrowdedTimeSlots == SubSeq(ExactTimeSlots, 1, 2)

CrowdedTeamIds == <<"t1", "t2", "t3", "t4", "t5", "t6">>

\* the team lists: one team more than there are InterviewSlots, or MaxCrowdedTeams
\* teams, all with the same preferences
CrowdedTeamLists ==
    {[i \in 1..n |-> [team_id |-> CrowdedTeamIds[i], time_preferences |-> tp]] :
        n \in {Len(CrowdedTimeSlots) + 1, MaxCrowdedTeams}, tp \in {<<>>, <<PrefAM>>}}

CrowdedInit ==
    /\ engine = "exact"
    /\ AdvFresh
    /\ SingleFresh
    /\ x_time_slots = CrowdedTimeSlots
    /\ ExactIdle
    /\ ResultFresh

CrowdedCall == \E tms \in CrowdedTeamLists : generate_five_options(tms, NoConstraints)

CrowdedNext ==
    \/ CrowdedCall
    \/ _generate_single_option
    \/ AppendOption

CrowdedSpec == CrowdedInit /\ [][CrowdedNext]_vars

----------------------------------------------------------------------------
(* SchedulingResult alone: a result holding any list of options, read once  *)

ResultInit ==
    /\ engine = "result"
    /\ AdvFresh
    /\ SingleFresh
    /\ ExactFresh
    /\ r_options \in OptionLists
    /\ r_pc = "idle" /\ r_best = 0

ResultNext == ReadBestOption

ResultSpec == ResultInit /\ [][ResultNext]_vars

----------------------------------------------------------------------------
(* Properties *)

DistinctNames(tm) == \A i, j \in 1..Len(tm) : i # j => tm[i].name # tm[j].name

AdvSolveOps == {"continuous", "max_teams", "balanced", "optimize"}
SingleSolveOps == {"greedy", "backtrack", "random", "find_optimal"}

\* an operation of the two-track scheduler has just returned a schedule
AdvReturned == engine = "advanced" /\ pc = "idle" /\ last_op \in AdvSolveOps
\* ... and it ran a greedy pass: optimize_schedule(0) runs none
AdvSolved == AdvReturned /\ (last_op = "optimize" => evaluated # {})
\* an operation of the single-track scheduler has just returned a schedule
SingleReturned == engine = "single" /\ s_pc = "idle" /\ s_last_op \in SingleSolveOps

\* the (group, slot) entries of a schedule {"A": {...}, "B": {...}} (or of {})
Entries(by_group) == UNION {{<<g, s>> : s \in DOMAIN by_group[g]} : g \in DOMAIN by_group}

\* C1: two-track scheduler, distinct team names: in every state no two teams hold the
\* same (assigned_slot, assigned_group), and an iteration of a team loop changes a
\* (slot, track) cell only if the cell was empty.
C1_NoDoubleBooking ==
    /\ [](DistinctNames(teams) =>
            \A i, j \in 1..Len(teams) :
                (i # j /\ TruthySlot(teams[i].assigned_slot)
                       /\ teams[i].assigned_slot = teams[j].assigned_slot)
                => teams[i].assigned_group # teams[j].assigned_group)
    /\ [][(pc = "loop" /\ pc' = "loop") =>
            \A s \in DOMAIN time_slots :
                /\ time_slots'[s].group_a_team # time_slots[s].group_a_team
                      => time_slots[s].group_a_team = None
                /\ time_slots'[s].group_b_team # time_slots[s].group_b_team
                      => time_slots[s].group_b_team = None]_vars

\* two teams of distinct names share a slot, one on each track, in the state
\* optimize_schedule restored
C1_Witness ==
    /\ AdvReturned /\ last_op = "optimize" /\ DistinctNames(teams)
    /\ \E i, j \in 1..Len(teams) :
          /\ teams[i].assigned_slot = teams[j].assigned_slot
          /\ teams[i].assigned_group = "A" /\ teams[j].assigned_group = "B"

\* C2: distinct team names: in the schedule a heuristic engine returns, a team name
\* occupies at most one slot (single track) or one (slot, track) pair (two tracks).
C2_OnePlacePerTeam ==
    /\ (AdvReturned /\ DistinctNames(teams)) =>
          \A e, f \in Entries(result) :
              result[e[1]][e[2]] = result[f[1]][f[2]] => e = f
    /\ (SingleReturned /\ DistinctNames(s_teams)) =>
          \A x, y \in DOMAIN s_result : s_result[x] = s_result[y] => x = y

\* a single-track schedule of three distinct teams, one of them with two available slots
C2_Witness ==
    /\ SingleReturned /\ DistinctNames(s_teams)
    /\ Cardinality(DOMAIN s_result) = 3
    /\ \E i \in 1..Len(s_teams) : Len(s_teams[i].available_slots) = 2

\* C3: every entry slot -> team of a returned schedule has the slot in the
\* available_slots of a team of that name.
C3_WithinAvailability ==
    /\ AdvReturned =>
          \A e \in Entries(result) :
              \E i \in 1..Len(teams) :
                  /\ teams[i].name = result[e[1]][e[2]]
                  /\ InSeq(e[2], teams[i].available_slots)
    /\ SingleReturned =>
          \A x \in DOMAIN s_result :
              \E i \in 1..Len(s_teams) :
                  /\ s_teams[i].name = s_result[x]
                  /\ InSeq(x, s_teams[i].available_slots)

\* schedule_interviews_continuous returned three placed teams although another slot was free
C3_Witness ==
    /\ AdvReturned /\ last_op = "continuous"
    /\ Cardinality(Entries(result)) = 3
    /\ \E s \in DOMAIN time_slots : time_slots[s].group_a_team = None

\* the slots named by the availability lists of the teams
AvailSlots(tm) ==
    UNION {{tm[i].available_slots[k] : k \in 1..Len(tm[i].available_slots)} :
              i \in 1..Len(tm)}

\* every team can be given a (slot, track) pair of its availability, no pair twice
FeasibleTwoTracks(tm) ==
    \E f \in [1..Len(tm) -> AvailSlots(tm) \X {"A", "B"}] :
        /\ \A i, j \in 1..Len(tm) : i # j => f[i] # f[j]
        /\ \A i \in 1..Len(tm) : InSeq(f[i][1], tm[i].available_slots)

\* every team can be given a slot of its availability, no slot twice
FeasibleOneTrack(tm) ==
    \E f \in [1..Len(tm) -> AvailSlots(tm)] :
        /\ \A i, j \in 1..Len(tm) : i # j => f[i] # f[j]
        /\ \A i \in 1..Len(tm) : InSeq(f[i], tm[i].available_slots)

\* backtrack(0) has returned True and self.schedule places every team
SearchPlacedAll ==
    /\ bt_found
    /\ \A i \in 1..Len(s_teams) :
          /\ s_teams[i].assigned_slot \in DOMAIN schedule
          /\ schedule[s_teams[i].assigned_slot] = s_teams[i].name

LexGE(c1, g1, c2, g2) == c1 > c2 \/ (c1 = c2 /\ g1 <= g2)

InOptimize == pc \in {"opt", "restore"} \/ (pc = "loop" /\ caller = "opt")

C8_GreedyDeterministic ==
    (AdvReturned /\ last_op = "continuous") =>
        /\ result = ContinuousSchedule(all_slots, InitialTimeSlots(all_slots),
                                       FreshTeams(teams))
        /\ result = ContinuousSchedule(all_slots, time_slots, teams)

\* schedule_interviews_continuous has returned a schedule that leaves a team out
C8_Witness ==
    /\ AdvReturned /\ last_op = "continuous"
    /\ Cardinality(Entries(result)) = 2
    /\ Len(teams) = 3

\* the (team, track) occupants of the slots of the team's availability
Occupants(ts, team) ==
    LET av == team.available_slots
    IN  UNION {{<<ts[s].group_a_team, "A">>, <<ts[s].group_b_team, "B">>} :
                  s \in {av[k] : k \in 1..Len(av)} \cap DOMAIN ts}
        \ {<<None, "A">>, <<None, "B">>}

\* C10: a team left unassigned has the reason NoAvailableSlots iff its availability is
\* empty; otherwise AllSlotsOccupied naming at least one occupant, only occupants of
\* slots of its availability, and all of them when there are at most three.
C10_ConflictReason ==
    AdvSolved =>
        \A i \in 1..Len(teams) :
            ~ TruthySlot(teams[i].assigned_slot) =>
                LET r == teams[i].conflict_reason
                    occ == Occupants(time_slots, teams[i])
                IN  /\ r.kind = "NoAvailableSlots" <=> Len(teams[i].available_slots) = 0
                    /\ Len(teams[i].available_slots) > 0 =>
                          /\ r.kind = "AllSlotsOccupied"
                          /\ r.teams # {}
                          /\ r.teams \subseteq occ
                          /\ Cardinality(occ) <= 3 => r.teams = occ

\* C9: on the reference fixture optimize_schedule returns a schedule in which all
\* eight teams are assigned and whose gap score, as _calculate_gap_score computes it
\* on the state it leaves, is 0.
C9_FixtureZeroGap ==
    (AdvReturned /\ last_op = "optimize" /\ Len(teams) = 8) =>
        /\ AssignedCount(teams) = 8
        /\ Cardinality(Entries(result)) = 8
        /\ _calculate_gap_score(all_slots, time_slots) = 0

\* _generate_single_option has returned an option
OptionReturned == engine = "exact" /\ x_pc = "solved" /\ x_option # NoOption

\* C4: in every option a strategy returns, a team listed in interviewer_avoidance[i]
\* has no Schedule whose interview_slot.group is the group interviewer_groups maps i to.
C4_AvoidanceRespected ==
    OptionReturned =>
        \A iv \in DOMAIN x_constraints.interviewer_avoidance
                    \cap DOMAIN x_constraints.interviewer_groups :
            \A k \in 1..Len(x_constraints.interviewer_avoidance[iv]) :
                \A j \in 1..Len(x_option.schedules) :
                    x_option.schedules[j].team = x_constraints.interviewer_avoidance[iv][k]
                    => x_option.schedules[j].interview_slot.group
                          # x_constraints.interviewer_groups[iv]

\* C5: no two Schedules of a returned option refer to the same InterviewSlot, and
\* validate_solution reports no slot collision for it.
C5_NoSharedSlot ==
    OptionReturned =>
        /\ \A j, k \in 1..Len(x_option.schedules) :
              j # k => x_option.schedules[j].interview_slot.slot_id
                          # x_option.schedules[k].interview_slot.slot_id
        /\ SlotCollisions(x_option.schedules) = {}

\* the team is accounted for: it holds an assigned (slot, track) or a conflict reason,
\* and not both
Accounted(team) ==
    (TruthySlot(team.assigned_slot) /\ Truthy(team.assigned_group))
        # (team.conflict_reason # NoReason)

\* C11: when a solve operation of the two-track scheduler returns (a greedy pass, or
\* optimize_schedule with any cap >= 0), every team has exactly one of an assigned
\* (slot, track) and a conflict reason.
C11_CompleteAccounting ==
    AdvReturned => \A i \in 1..Len(teams) : Accounted(teams[i])

\* the team name the slot holds on the track
TrackTeam(ts, slot, group) ==
    IF group = "A" THEN ts[slot].group_a_team ELSE ts[slot].group_b_team

\* the (track, position) pairs that are empty and lie strictly between two occupied
\* slots of the same date and track
InteriorGaps(slots, ts) ==
    {<<group, k>> \in {"A", "B"} \X (1..Len(slots)) :
        /\ TrackTeam(ts, slots[k], group) = None
        /\ \E i \in 1..(k - 1) :
              /\ DateOf(slots[i]) = DateOf(slots[k])
              /\ TrackTeam(ts, slots[i], group) # None
        /\ \E j \in (k + 1)..Len(slots) :
              /\ DateOf(slots[j]) = DateOf(slots[k])
              /\ TrackTeam(ts, slots[j], group) # None}

\* C12: for every occupancy of the slot table, _calculate_gap_score is the number of
\* empty (date, track, slot) triples lying strictly after the first and strictly
\* before the last occupied slot of their (date, track).
C12_GapScoreInterior ==
    engine = "advanced" =>
        _calculate_gap_score(all_slots, time_slots)
            = Cardinality(InteriorGaps(all_slots, time_slots))

\* InterviewScheduler.get_unassigned_teams, as the set of the names it lists
get_unassigned_teams(tm) ==
    {tm[i].name : i \in 1..Len(tm)}
        \ {tm[i].name : i \in {j \in 1..Len(tm) : TruthySlot(tm[j].assigned_slot)}}

\* InterviewScheduler.get_schedule_statistics: the entry counting the assigned teams
StatAssignedTeams(tm) == Len(SelectSeq(tm, LAMBDA t : TruthySlot(t.assigned_slot)))

\* C13: single-track scheduler, distinct names: after any sequence of solve calls a team
\* has assigned_slot = s iff schedule[s] is its name; hence no two teams share an
\* assigned_slot, get_unassigned_teams lists exactly the teams absent from the schedule
\* and the assigned-team statistic is the number of schedule entries.
C13_TeamsMatchSchedule ==
    (SingleReturned /\ DistinctNames(s_teams)) =>
        /\ \A i \in 1..Len(s_teams) :
              /\ TruthySlot(s_teams[i].assigned_slot) =>
                    /\ s_teams[i].assigned_slot \in DOMAIN schedule
                    /\ schedule[s_teams[i].assigned_slot] = s_teams[i].name
              /\ \A s \in DOMAIN schedule :
                    schedule[s] = s_teams[i].name => s_teams[i].assigned_slot = s
        /\ \A i, j \in 1..Len(s_teams) :
              (i # j /\ TruthySlot(s_teams[i].assigned_slot))
              => s_teams[i].assigned_slot # s_teams[j].assigned_slot
        /\ get_unassigned_teams(s_teams)
              = {s_teams[i].name : i \in 1..Len(s_teams)}
                    \ {schedule[s] : s \in DOMAIN schedule}
        /\ StatAssignedTeams(s_teams) = Cardinality(DOMAIN schedule)

\* C14: when generate_five_options returns from a call with more teams than the
\* scheduler has InterviewSlots, it returns five options, one per strategy in the order
\* of the strategies, each scheduling at most as many teams as there are InterviewSlots.
C14_PartialOptions ==
    (engine = "exact" /\ x_pc = "returned" /\ Len(x_teams) > Len(x_time_slots)) =>
        /\ Len(x_options) = Len(Strategies)
        /\ \A k \in 1..Len(x_options) :
              /\ x_options[k].strategy_type = Strategies[k]
              /\ x_options[k].total_teams <= Len(x_time_slots)

\* C15: a call of generate_five_options with an empty team list ends by returning (it
\* raises no error), and what it returns is five options with zero schedules each.
C15_EmptyTeamList ==
    (engine = "exact" /\ x_pc \in {"returned", "raised"} /\ Len(x_teams) = 0) =>
        /\ x_pc = "returned"
        /\ Len(x_options) = Len(Strategies)
        /\ \A k \in 1..Len(x_options) : x_options[k].total_teams = 0

\* the caller's data of a team: everything but its assignment state
Input(team) ==
    [name |-> team.name, available_slots |-> team.available_slots,
     email |-> team.email, phone |-> team.phone]

\* the caller's data of the teams of a list, each with the number of teams carrying it
InputBag(tm) ==
    [r \in {Input(tm[i]) : i \in 1..Len(tm)} |->
        Cardinality({i \in 1..Len(tm) : Input(tm[i]) = r})]

\* C16: no step of a solve operation of either heuristic scheduler (any step but
\* add_team) changes the name, the availability list (contents and order), the email or
\* the phone of any team, nor all_slots: the teams may be reordered and their assignment
\* state may change, nothing else.
C16_InputsUnchanged ==
    [][(last_op' # "add_team" /\ s_last_op' # "add_team") =>
          /\ InputBag(teams') = InputBag(teams)
          /\ InputBag(s_teams') = InputBag(s_teams)
          /\ all_slots' = all_slots]_vars

\* find_optimal_schedule returned with a team placed that declared two slots, or
\* optimize_schedule returned with such a team placed
C16_Witness ==
    \/ /\ SingleReturned /\ s_last_op = "find_optimal"
       /\ \E i \in 1..Len(s_teams) :
             TruthySlot(s_teams[i].assigned_slot) /\ Len(s_teams[i].available_slots) = 2
    \/ /\ AdvReturned /\ last_op = "optimize"
       /\ \E i \in 1..Len(teams) :
             TruthySlot(teams[i].assigned_slot) /\ Len(teams[i].available_slots) = 2

\* the turn of team i in the reference greedy: teams of smaller availability first, ties
\* in the order of the team list
RefRank(tm, i) ==
    1 + Cardinality({j \in 1..Len(tm) :
            \/ Len(tm[j].available_slots) < Len(tm[i].available_slots)
            \/ /\ Len(tm[j].available_slots) = Len(tm[i].available_slots)
               /\ j < i})

\* the reference greedy from turn k on; asg[i] is the (slot, track) of team i, <<>> if none
RECURSIVE RefGreedy(_, _, _, _)
RefGreedy(slots, tm, k, asg) ==
    IF k > Len(tm) THEN asg
    ELSE LET i == CHOOSE j \in 1..Len(tm) : RefRank(tm, j) = k
             taken(s, g) == \E j \in 1..Len(tm) : asg[j] = <<s, g>>
             free == {n \in 1..Len(slots) :
                         /\ InSeq(slots[n], tm[i].available_slots)
                         /\ ~(taken(slots[n], "A") /\ taken(slots[n], "B"))}
         IN  IF free = {} THEN RefGreedy(slots, tm, k + 1, asg)
             ELSE LET n == CHOOSE m \in free : \A q \in free : m <= q
                      g == IF taken(slots[n], "A") THEN "B" ELSE "A"
                  IN  RefGreedy(slots, tm, k + 1, [asg EXCEPT ![i] = <<slots[n], g>>])

\* the team loop of schedule_interviews_continuous is over, or the call has returned
ContinuousDone ==
    /\ engine = "advanced"
    /\ \/ pc = "loop" /\ method = "continuous" /\ idx > Len(sorted_teams)
       \/ pc = "idle" /\ last_op = "continuous"

\* C17: when schedule_interviews_continuous is done, every team sits where the
\* reference greedy puts it (smallest availability first, ties in list order; the
\* chronologically earliest slot of all_slots that the team declared and that has a free
\* track; track A if free, else B) or is unassigned where the reference places nothing,
\* and the slot table holds exactly these placements.
C17_ContinuousIsReferenceGreedy ==
    ContinuousDone =>
        LET ref == RefGreedy(all_slots, teams, 1, [i \in 1..Len(teams) |-> <<>>])
            occupant(s, g) ==
                IF \E i \in 1..Len(teams) : ref[i] = <<s, g>>
                THEN teams[CHOOSE i \in 1..Len(teams) : ref[i] = <<s, g>>].name
                ELSE None
        IN  /\ \A i \in 1..Len(teams) :
                  IF ref[i] = <<>>
                  THEN teams[i].assigned_slot = NoSlot /\ teams[i].assigned_group = None
                  ELSE /\ teams[i].assigned_slot = ref[i][1]
                       /\ teams[i].assigned_group = ref[i][2]
            /\ \A s \in DOMAIN time_slots :
                  /\ time_slots[s].group_a_team = occupant(s, "A")
                  /\ time_slots[s].group_b_team = occupant(s, "B")

\* schedule_interviews_continuous returned with a team on track B, a team that declared
\* two slots placed, and a team left unassigned although it declared a slot
C17_Witness ==
    /\ engine = "advanced" /\ pc = "idle" /\ last_op = "continuous"
    /\ \E i \in 1..Len(teams) : teams[i].assigned_group = "B"
    /\ \E i \in 1..Len(teams) :
          Len(teams[i].available_slots) = 2 /\ TruthySlot(teams[i].assigned_slot)
    /\ \E i \in 1..Len(teams) :
          Len(teams[i].available_slots) > 0 /\ ~TruthySlot(teams[i].assigned_slot)

\* the chronological rank of a slot: its position in all_slots, a slot outside the
\* universe comes after every slot of it
SlotRank(slots, s) ==
    IF InSeq(s, slots) THEN FirstIndex(slots, LAMBDA x : x = s) ELSE Len(slots) + 1

\* the one-track reference greedy from turn k on: the team of the turn takes the
\* chronologically earliest slot of its availability that is not taken yet
RECURSIVE RefGreedyOneTrack(_, _, _, _)
RefGreedyOneTrack(slots, tm, k, sched) ==
    IF k > Len(tm) THEN sched
    ELSE LET i == CHOOSE j \in 1..Len(tm) : RefRank(tm, j) = k
             av == tm[i].available_slots
             free == {av[n] : n \in 1..Len(av)} \ DOMAIN sched
         IN  IF free = {} THEN RefGreedyOneTrack(slots, tm, k + 1, sched)
             ELSE LET s == CHOOSE x \in free :
                               \A y \in free : SlotRank(slots, x) <= SlotRank(slots, y)
                  IN  RefGreedyOneTrack(slots, tm, k + 1, Put(sched, s, tm[i].name))

\* C18: schedule_interviews_max_teams and _greedy_scheduling scan in slot-chronological
\* order: what they return is what the reference greedy returns, each team in its turn
\* on the chronologically earliest slot of its availability that still has room,
\* whatever the order of its availability list.
C18_ChronologicalScan ==
    /\ (AdvReturned /\ last_op = "max_teams") =>
          LET ref == RefGreedy(all_slots, teams, 1, [i \in 1..Len(teams) |-> <<>>])
          IN  \A i \in 1..Len(teams) :
                 IF ref[i] = <<>>
                 THEN teams[i].assigned_slot = NoSlot
                 ELSE /\ teams[i].assigned_slot = ref[i][1]
                      /\ teams[i].assigned_group = ref[i][2]
    /\ (SingleReturned /\ s_last_op = "greedy") =>
          schedule = RefGreedyOneTrack(all_slots, s_teams, 1, EmptyDict)

\* the placements of a search are undone: nothing is scheduled and no team the search
\* made a placement for holds a slot
Undone(tm, sched, touched) ==
    /\ sched = EmptyDict
    /\ \A i \in touched : tm[i].assigned_slot = NoSlot

\* C19: when no assignment gives every team a slot of its availability, no slot twice
\* (a team with an empty availability included), the search of _backtrack_scheduling
\* ends with every placement undone (schedule empty, assigned_slot None for every team it
\* made a placement for), and _backtrack_scheduling then returns exactly the schedule of
\* _greedy_scheduling on the team list sorted by availability size.
C19_BacktrackFallback ==
    [][/\ (s_pc' = "searched" /\ ~FeasibleOneTrack(s_teams'))
             => Undone(s_teams', schedule', bt_touched')
       /\ (s_pc = "searched" /\ ~FeasibleOneTrack(s_teams))
             => /\ schedule' = _greedy_scheduling(SortInPlace(s_teams)).schedule
                /\ (s_caller = "api" => s_result' = schedule')]_vars

\* the step on which find_optimal_schedule returns
FindOptimalReturns == s_pc # "idle" /\ s_pc' = "idle" /\ s_last_op' = "find_optimal"

\* C20: find_optimal_schedule returns a schedule with at least as many entries as every
\* schedule it evaluated (the backtracking or fallback result and every shuffled greedy
\* restart), and when it returns before max_iterations restarts were done the returned
\* schedule has an entry for every team.
C20_ReturnsTheBest ==
    [][FindOptimalReturns =>
          /\ \A e \in s_evaluated' :
                Cardinality(DOMAIN s_result') >= Cardinality(DOMAIN e)
          /\ s_iteration < s_max_iterations =>
                Cardinality(DOMAIN s_result') = Len(s_teams')]_vars

----------------------------------------------------------------------------
(* C21: the iteration count of optimize_schedule.                           *)

\* some run of this call assigned every team with gap score 0
PerfectRun == \E e \in evaluated : e.count = Len(teams) /\ e.gap = 0

\* C21: optimize_schedule starts a run (shuffle and greedy pass) only while fewer
\* than max_iterations runs were made and no earlier run of the call assigned every
\* team with gap score 0, and it leaves its loop only after such a run or after
\* exactly max_iterations runs
C21_BoundedRuns ==
    [][/\ (pc = "opt" /\ pc' = "loop") =>
              /\ ~PerfectRun
              /\ iteration < max_iterations
              /\ iteration' = iteration + 1
       /\ (pc \in {"opt", "restore"} /\ pc' = "idle") =>
              \/ PerfectRun
              \/ iteration = max_iterations
       /\ (pc = "restore") => PerfectRun]_vars

\* the early exit is taken with runs to spare, on a non-empty team list
C21_Witness ==
    /\ engine = "advanced" /\ pc = "restore"
    /\ Len(teams) > 0 /\ iteration < max_iterations /\ PerfectRun

----------------------------------------------------------------------------
(* C22: what optimize_schedule restores.                                    *)

\* the occupied (slot, track) cells of a slot table, with their team names
Cells(ts) ==
    {<<s, "A", ts[s].group_a_team>> : s \in {x \in DOMAIN ts : ts[x].group_a_team # None}}
    \cup {<<s, "B", ts[s].group_b_team>> : s \in {x \in DOMAIN ts : ts[x].group_b_team # None}}

\* the (slot, track, name) entries of a schedule by group
ScheduleCells(sched) ==
    {<<s, "A", sched.A[s]>> : s \in DOMAIN sched.A}
    \cup {<<s, "B", sched.B[s]>> : s \in DOMAIN sched.B}

\* every team's (name, assigned_slot, assigned_group, conflict_reason)
TeamStates(tm) ==
    {<<tm[i].name, tm[i].assigned_slot, tm[i].assigned_group, tm[i].conflict_reason>> :
        i \in 1..Len(tm)}

\* what optimize_schedule retains of its best iteration
Retained == <<best_schedule, best_count, best_gap_score, best_team_assignments>>

\* C22: with distinct team names and max_iterations >= 1, what optimize_schedule
\* retains changes only when an iteration is evaluated, and then it is the slot table
\* and the team states of that very iteration; on return the slot table and every
\* team's (assigned_slot, assigned_group, conflict_reason) are the retained ones, so
\* the restored state carries the returned schedule: its occupied cells are the
\* entries of the result and its assigned teams are the teams of those cells
C22_RestoresBestIteration ==
    [][(engine = "advanced" /\ DistinctNames(teams) /\ InOptimize /\ max_iterations >= 1) =>
          /\ (Retained' # Retained /\ pc' # "idle") =>
                /\ pc = "loop" /\ idx > Len(sorted_teams)
                /\ ScheduleCells(best_schedule') = Cells(time_slots)
                /\ {best_team_assignments'[k] : k \in DOMAIN best_team_assignments'}
                      = TeamStates(teams)
          /\ (pc' = "idle") =>
                /\ iteration >= 1
                /\ Cells(time_slots') = ScheduleCells(best_schedule)
                /\ TeamStates(teams')
                      = {best_team_assignments[k] : k \in DOMAIN best_team_assignments}
                /\ result' = best_schedule
                /\ Cells(time_slots') = ScheduleCells(result')
                /\ \A i \in 1..Len(teams') :
                      LET t == teams'[i]
                      IN  IF TruthySlot(t.assigned_slot)
                          THEN <<t.assigned_slot, t.assigned_group, t.name>>
                                  \in Cells(time_slots')
                          ELSE \A c \in Cells(time_slots') : c[3] # t.name]_vars

\* the last iteration run is not the best one: its team states differ from the retained
C22_Witness ==
    /\ engine = "advanced" /\ pc = "opt" /\ DistinctNames(teams)
    /\ iteration = max_iterations /\ iteration >= 2
    /\ TeamStates(teams) # {best_team_assignments[k] : k \in DOMAIN best_team_assignments}
    /\ Cells(time_slots) # ScheduleCells(best_schedule)

----------------------------------------------------------------------------
(* C23: the residual reason of _analyze_conflict.                           *)

\* C23: no team of AdvancedInterviewScheduler ever carries the residual reason
\* ("Unknown"): whenever a pass leaves a team unassigned, _analyze_conflict finds its
\* availability empty or every slot of it that is in the slot table full
C23_NoUnknownReason ==
    engine = "advanced" =>
        \A i \in 1..Len(teams) : teams[i].conflict_reason.kind # "Unknown"

\* schedule_interviews_balanced left a team out although its preferred group was tried
\* first and the other group after it: both tracks of its slot are taken
C23_Witness ==
    /\ AdvReturned /\ last_op = "balanced"
    /\ \E i \in 1..Len(teams) :
          /\ ~ TruthySlot(teams[i].assigned_slot)
          /\ teams[i].conflict_reason.kind = "AllSlotsOccupied"
          /\ Cardinality(teams[i].conflict_reason.teams) = 2

----------------------------------------------------------------------------
(* C24: every team of the input is in every option.                         *)

----------------------------------------------------------------------------
(* C25: the preference rank an option reports.                              *)

\* the smallest rank in 1..3 whose declared preference overlaps the slot's time
\* range, 0 when none of the first three does
DeclaredRank(time_preferences, slot) ==
    LET ranks == {r \in 1..3 :
                     /\ r <= Len(time_preferences)
                     /\ _time_ranges_overlap(time_preferences[r][1], time_preferences[r][2],
                                             slot.start_time, slot.end_time)}
    IN  IF ranks = {} THEN 0 ELSE CHOOSE r \in ranks : \A q \in ranks : r <= q

\* C25: in the option a strategy produced, the preference_rank of every Schedule is
\* the smallest rank whose declared preference overlaps the placed slot, 0 when the
\* slot overlaps none of the team's first three preferences
C25_ReportedRank ==
    (engine = "exact" /\ x_pc = "solved" /\ x_option # NoOption) =>
        \A j \in 1..Len(x_option.schedules) :
            x_option.schedules[j].preference_rank
               = DeclaredRank(x_teams[j].time_preferences,
                              x_option.schedules[j].interview_slot)

----------------------------------------------------------------------------
(* C26: the track balance of the GROUP_BALANCE option.                      *)

\* |teams whose interview_slot.group is A - teams whose interview_slot.group is B|
SlotGroupDifference(schedules) ==
    Abs(Cardinality({j \in 1..Len(schedules) : schedules[j].interview_slot.group = "A"})
        - Cardinality({j \in 1..Len(schedules) : schedules[j].interview_slot.group = "B"}))

\* C26: the option of the group_balance strategy has the smallest difference between
\* the teams on slots of group A and the teams on slots of group B that an assignment
\* satisfying the hard constraints has
C26_TrackBalanceMinimal ==
    (engine = "exact" /\ x_pc = "solved" /\ x_option # NoOption
        /\ x_option.strategy_type = "group_balance") =>
        \A sol \in Solutions(x_teams, x_constraints) :
            SlotGroupDifference(x_option.schedules)
               <= SlotGroupDifference(_extract_solution(x_teams, sol))

----------------------------------------------------------------------------
(* C27: the recommended option.                                             *)

\* C27: for a non-empty list of options best_option returns an option of the list
\* whose composite score is maximal, the first of them on ties, and the list is as
\* it was
C27_BestOptionIsMaximal ==
    (engine = "result" /\ r_pc = "returned" /\ Len(r_options) > 0) =>
        /\ r_best \in 1..Len(r_options)
        /\ \A k \in 1..Len(r_options) :
              /\ CompositeScore(r_options[k]) <= CompositeScore(r_options[r_best])
              /\ k < r_best =>
                    CompositeScore(r_options[k]) < CompositeScore(r_options[r_best])

----------------------------------------------------------------------------
(* C28: the statistics of AdvancedInterviewScheduler.                       *)

\* C28: get_schedule_statistics called once a solve has returned, the team names
\* being distinct: assigned + unassigned is the number of teams; the A-track count
\* plus the B-track count is the assigned count, the number of occupied (slot, track)
\* cells of the slot table and the sum of the per-date per-track counts; the assigned
\* count is at most len(all_slots) * 2; and the call changes nothing of the scheduler
C28_StatisticsConsistent ==
    [][(engine = "advanced" /\ pc = "idle" /\ last_op \in AdvSolveOps
           /\ last_op' = "statistics" /\ DistinctNames(teams)) =>
          LET st == result'
              dates == DOMAIN st.date_stats
          IN  /\ st.assigned_teams + st.unassigned_teams = st.total_teams
              /\ st.total_teams = Len(teams)
              /\ st.group_a_count + st.group_b_count = st.assigned_teams
              /\ st.assigned_teams = Cardinality(Cells(time_slots))
              /\ st.assigned_teams
                    = SumFn([d \in dates |-> st.date_stats[d].A + st.date_stats[d].B])
              /\ st.assigned_teams <= Len(all_slots) * 2
              /\ st.total_capacity = Len(all_slots) * 2
              /\ UNCHANGED <<all_slots, teams, time_slots>>]_vars

\* the statistics of a schedule of both tracks that leaves a team out
C28_Witness ==
    /\ engine = "advanced" /\ pc = "idle" /\ last_op = "statistics"
    /\ DistinctNames(teams)
    /\ result.group_a_count >= 1 /\ result.group_b_count >= 1
    /\ result.unassigned_teams >= 1

----------------------------------------------------------------------------
(* C29: no team could still be added.                                       *)

\* C29: when a greedy pass of AdvancedInterviewScheduler has returned, and in the
\* state optimize_schedule restores after at least one iteration, no unassigned team
\* has in its availability a slot of the universe with a free track
C29_GreedyMaximal ==
    AdvSolved =>
        \A i \in 1..Len(teams) :
            ~ TruthySlot(teams[i].assigned_slot) =>
                \A k \in 1..Len(teams[i].available_slots) :
                    LET s == teams[i].available_slots[k]
                    IN  s \in DOMAIN time_slots => ~ has_space(time_slots[s])

----------------------------------------------------------------------------
(* C30: the slots of a returned schedule are slots of the universe.         *)

\* the KeyError of InterviewScheduler.get_schedule_statistics: date_stats has the
\* three dates of the calendar as its keys
StatisticsRaises(sched) == \E s \in DOMAIN sched : \A k \in 1..Len(Dates) : DateOf(s) # Dates[k]

\* C30: every slot identifier that holds a team in the schedule a heuristic engine
\* returned is a slot of all_slots, also when an availability list names identifiers
\* outside the universe; so no more than len(all_slots) slots are used and
\* get_schedule_statistics completes
C30_SlotsInUniverse ==
    /\ AdvSolved =>
          /\ \A c \in ScheduleCells(result) \cup Cells(time_slots) : InSeq(c[1], all_slots)
          /\ Cardinality({c[1] : c \in Cells(time_slots)}) <= Len(all_slots)
    /\ SingleReturned =>
          /\ \A s \in DOMAIN s_result \cup DOMAIN schedule : InSeq(s, SmallCalendar)
          /\ Cardinality(DOMAIN schedule) <= Len(SmallCalendar)
          /\ ~ StatisticsRaises(schedule)

====
